---- MODULE Spec2Model ----
(***************************************************************************)
(* Model of the temperament evaluator: the norm profile (Norm, NormSym),   *)
(* the numeric optimizer (optimizer_main), the destretch step of the       *)
(* symbolic optimizer (optimizer_symbolic) and Temperament.tune.           *)
(*                                                                         *)
(* Real numbers are modelled by exact rationals [n, d]; np.inf is the      *)
(* record inf.  np.log2 is modelled by a table of 29ths (29*log2 p,        *)
(* rounded) over the primes of PRIME_LIST.  The external solvers           *)
(* (scipy lstsq / minimize, the sympy projection algebra) are modelled by  *)
(* a choice among candidate generator maps; on success the SLSQP result    *)
(* meets its equality constraints.  A Python object that may be None is a  *)
(* sequence of length 0 (None) or 1.                                       *)
(***************************************************************************)
EXTENDS Integers, Sequences, FiniteSets, TLC

VARIABLES norm, norm_sym, op, args, res, warned

vars == <<norm, norm_sym, op, args, res, warned>>

\* ------------------------------------------------------------------ bounds
MaxWamount == 1
MaxSkew == 1
MaxOrder == 2
MaxCols == 25

\* the most intervals given to find_complexity_spectrum
MaxIntervals == 3

\* --------------------------------------------------------------- rationals
None == <<>>

Some(x) == <<x>>

Abs(x) == IF x < 0 THEN -x ELSE x

RECURSIVE GCD(_, _)
GCD(a, b) == IF b = 0 THEN a ELSE GCD(b, a % b)

\* n/d in lowest terms with a denominator that is not negative, g their
\* greatest common divisor
Reduce(n, d, g) == [n |-> n \div g, d |-> d \div g]

Rat(n, d) == Reduce(IF d < 0 THEN -n ELSE n, Abs(d), GCD(Abs(n), Abs(d)))

R(i) == [n |-> i, d |-> 1]

inf == [n |-> 1, d |-> 0]

\* the common factor two terms are reduced by before they are multiplied
Factor(x, y) == IF x = 0 /\ y = 0 THEN 1 ELSE GCD(Abs(x), Abs(y))

\* a + b, g the common factor of the denominators
RAddBy(a, b, g) == Rat(a.n * (b.d \div g) + b.n * (a.d \div g), (a.d \div g) * b.d)

RAdd(a, b) == RAddBy(a, b, Factor(a.d, b.d))

RSub(a, b) == RAdd(a, [n |-> -b.n, d |-> b.d])

\* a * b, g1 and g2 the common factors across the fractions
RMulBy(a, b, g1, g2) == Rat((a.n \div g1) * (b.n \div g2), (a.d \div g2) * (b.d \div g1))

RMul(a, b) == RMulBy(a, b, Factor(a.n, b.d), Factor(b.n, a.d))

RDiv(a, b) == RMul(a, Rat(b.d, b.n))

RECURSIVE RPow(_, _)
RPow(a, k) == IF k = 0 THEN R(1) ELSE RMul(a, RPow(a, k - 1))

RECURSIVE SumTo(_, _)
SumTo(f, k) == IF k = 0 THEN R(0) ELSE RAdd(SumTo(f, k - 1), f[k])

\* u @ v for two 1-D arrays of one length
Dot(u, v) == SumTo([i \in 1..Len(u) |-> RMul(u[i], v[i])], Len(u))

\* a matrix is the sequence of its rows
Rows(M) == Len(M)

Cols(M) == IF Len(M) = 0 THEN 0 ELSE Len(M[1])

Column(M, j) == [i \in 1..Rows(M) |-> M[i][j]]

\* v @ M for a 1-D array v and a 2-D array M with Len(v) rows
VecMat(v, M) == [j \in 1..Cols(M) |-> Dot(v, Column(M, j))]

MatMul(A, B) == [i \in 1..Rows(A) |-> VecMat(A[i], B)]

Eye(n) == [i \in 1..n |-> [j \in 1..n |-> IF i = j THEN R(1) ELSE R(0)]]

Diag(v) == [i \in 1..Len(v) |-> [j \in 1..Len(v) |-> IF i = j THEN v[i] ELSE R(0)]]

RatVec(v) == [i \in 1..Len(v) |-> R(v[i])]

RatMat(M) == [i \in 1..Len(M) |-> RatVec(M[i])]

\* ------------------------------------------------------ program constants
PRIME_LIST == <<2, 3, 5, 7, 11, 13, 17, 19, 23, 29, 31, 37, 41, 43, 47, 53, 59, 61, 67, 71, 73, 79, 83, 89>>

SCALAR == 1200

\* round (29*log2 (p)) for the primes of PRIME_LIST, in their order
LOG2_STEPS == <<29, 46, 67, 81, 100, 107, 119, 123, 131, 141, 144, 151, 155, 157, 161, 166, 171, 172, 176, 178, 180, 183, 185, 188>>

\* np.log2 of one subgroup entry
Log2(q) == Rat(LOG2_STEPS[CHOOSE i \in 1..Len(PRIME_LIST) : PRIME_LIST[i] = q], 29)

\* ------------------------------------------------------------ warnings
WARN_WEIGHTER == "weighter type not supported, using default (\"tenney\")"

WARN_DIMENSION == "dimension does not match. Casting to the smaller dimension. "

WARN_TRANSCENDENTAL == "transcendental weight can be slow. Main optimizer recommended. "

\* an outcome of a call: the exception raised ("" when it returns), the
\* value returned, the object the method ran on as it is left, the warnings
Returned(self, value, warn) == [exc |-> "", value |-> value, self |-> self, warn |-> warn]

Raised(self, exc, warn) == [exc |-> exc, value |-> None, self |-> self, warn |-> warn]

\* --------------------------------------------------------------- class Norm
Norm(wtype, wamount, skew, order) ==
    [wtype |-> wtype, wamount |-> wamount, skew |-> skew, order |-> order]

RECURSIVE __get_weight(_, _)
__get_weight(self, subgroup) ==
    IF self.wtype = "tenney"
    THEN Returned(self, Diag([i \in 1..Len(subgroup) |->
            RPow(RDiv(R(1), Log2(subgroup[i])), self.wamount)]), <<>>)
    ELSE IF self.wtype = "wilson" \/ self.wtype = "benedetti"
    THEN Returned(self, Diag([i \in 1..Len(subgroup) |->
            RPow(RDiv(R(1), R(subgroup[i])), self.wamount)]), <<>>)
    ELSE IF self.wtype = "equilateral"
    THEN Returned(self, Diag([i \in 1..Len(subgroup) |-> RPow(R(1), self.wamount)]), <<>>)
    ELSE LET rec == __get_weight([self EXCEPT !.wtype = "tenney"], subgroup)
         IN  [rec EXCEPT !.warn = <<WARN_WEIGHTER>> \o rec.warn]

\* mutant: the order is tested before the skew
get_skew_order_first(self, subgroup) ==
    LET n == Len(subgroup) IN
    IF self.order # R(2)
    THEN Raised(self, "NotImplementedError", <<>>)
    ELSE IF self.skew = R(0)
    THEN Returned(self, Eye(n), <<>>)
    ELSE LET r == IF self.skew # inf
                  THEN RDiv(self.skew, RAdd(RMul(R(n), RMul(self.skew, self.skew)), R(1)))
                  ELSE R(0)
             kr == IF self.skew # inf THEN RMul(self.skew, r) ELSE RDiv(R(1), R(n))
         IN  Returned(self,
                [i \in 1..n |-> [j \in 1..(n + 1) |->
                    IF j = n + 1 THEN r
                    ELSE RSub(IF i = j THEN R(1) ELSE R(0), kr)]],
                <<>>)

\* mutant: an unsupported skew degrades to no skew, as the weighter does
get_skew_degrades(self, subgroup) ==
    LET n == Len(subgroup) IN
    IF self.skew = R(0) \/ self.order # R(2)
    THEN Returned([self EXCEPT !.skew = R(0)], Eye(n), <<>>)
    ELSE LET r == IF self.skew # inf
                  THEN RDiv(self.skew, RAdd(RMul(R(n), RMul(self.skew, self.skew)), R(1)))
                  ELSE R(0)
             kr == IF self.skew # inf THEN RMul(self.skew, r) ELSE RDiv(R(1), R(n))
         IN  Returned(self,
                [i \in 1..n |-> [j \in 1..(n + 1) |->
                    IF j = n + 1 THEN r
                    ELSE RSub(IF i = j THEN R(1) ELSE R(0), kr)]],
                <<>>)

__get_skew(self, subgroup) ==
    LET n == Len(subgroup) IN
    IF self.skew = R(0)
    THEN Returned(self, Eye(n), <<>>)
    ELSE IF self.order = R(2)
    THEN LET r == IF self.skew # inf
                  THEN RDiv(self.skew, RAdd(RMul(R(n), RMul(self.skew, self.skew)), R(1)))
                  ELSE R(0)
             kr == IF self.skew # inf THEN RMul(self.skew, r) ELSE RDiv(R(1), R(n))
         IN  Returned(self,
                [i \in 1..n |-> [j \in 1..(n + 1) |->
                    IF j = n + 1 THEN r
                    ELSE RSub(IF i = j THEN R(1) ELSE R(0), kr)]],
                <<>>)
    ELSE Raised(self, "NotImplementedError", <<>>)

\* Norm.weightskewed, main @ weight @ skew evaluated left to right, without
\* the product: the exception of the first step that raises (the weight,
\* the first product of a main with ncols columns, the skew), the norm as
\* it is left and the warnings
weightskewed_effect(ncols, subgroup, self) ==
    LET w == __get_weight(self, subgroup) IN
    IF ncols # Len(subgroup)
    THEN Raised(w.self, "ValueError", w.warn)
    ELSE LET s == __get_skew(w.self, subgroup) IN
         IF s.exc # ""
         THEN Raised(w.self, s.exc, w.warn)
         ELSE Returned(w.self, None, w.warn)

\* Norm.weightskewed with its value
weightskewed(main, subgroup, self) ==
    LET e == weightskewed_effect(Cols(main), subgroup, self) IN
    IF e.exc # "" THEN e
    ELSE [e EXCEPT !.value = MatMul(MatMul(main, __get_weight(e.self, subgroup).value),
                                    __get_skew(e.self, subgroup).value)]

\* ----------------------------------------------------------- optimizer_main
\* main[:, :dim]
TruncCols(main, dim) == [i \in 1..Len(main) |-> SubSeq(main[i], 1, dim)]

Min(a, b) == IF a < b THEN a ELSE b

\* PRIME_LIST[:k] and subgroup[:k]: a slice stops at the end of the list
Slice(list, k) == SubSeq(list, 1, Min(k, Len(list)))

\* mutant: only the mapping is cut, the subgroup is left as given
get_subgroup_cuts_mapping_only(main, subgroup) ==
    IF subgroup = None
    THEN [main |-> main, subgroup |-> Slice(PRIME_LIST, Cols(main)), warn |-> <<>>]
    ELSE IF Cols(main) # Len(subgroup[1])
    THEN LET dim == Min(Cols(main), Len(subgroup[1]))
         IN  [main |-> TruncCols(main, dim), subgroup |-> subgroup[1],
              warn |-> <<WARN_DIMENSION>>]
    ELSE [main |-> main, subgroup |-> subgroup[1], warn |-> <<>>]

__get_subgroup(main, subgroup) ==
    IF subgroup = None
    THEN [main |-> main, subgroup |-> Slice(PRIME_LIST, Cols(main)), warn |-> <<>>]
    ELSE IF Cols(main) # Len(subgroup[1])
    THEN LET dim == Min(Cols(main), Len(subgroup[1]))
         IN  [main |-> TruncCols(main, dim), subgroup |-> Slice(subgroup[1], dim),
              warn |-> <<WARN_DIMENSION>>]
    ELSE [main |-> main, subgroup |-> subgroup[1], warn |-> <<>>]

\* np.log2 (subgroup)*SCALAR
JustTuningMap(subgroup) == [i \in 1..Len(subgroup) |-> RMul(Log2(subgroup[i]), R(SCALAR))]

\* mutant: only the first constraint monzo is enforced
ConstraintFun_first_only(gen, vals, jip, cons_monzo_list) ==
    LET mistuning == [j \in 1..Len(jip) |-> RSub(VecMat(gen, vals)[j], jip[j])]
    IN  [k \in 1..Cols(cons_monzo_list) |->
            IF k = 1 THEN VecMat(mistuning, cons_monzo_list)[k] ELSE R(0)]

\* the constraint function handed to the solver: (gen @ vals - jip) @ cons_monzo_list
ConstraintFun(gen, vals, jip, cons_monzo_list) ==
    LET mistuning == [j \in 1..Len(jip) |-> RSub(VecMat(gen, vals)[j], jip[j])]
    IN  VecMat(mistuning, cons_monzo_list)

\* the generator maps a solver may report for r generators
GenCands(r) ==
    IF r = 1 THEN {<<R(100)>>, <<R(240)>>, <<R(101)>>}
    ELSE {<<R(1200), R(1897)>>, <<R(1200), RMul(Log2(3), R(SCALAR))>>, <<R(1201), R(1899)>>}

\* what linalg.lstsq / optimize.minimize may report: on success the
\* equality constraints hold at res.x
SolverResults(vals, jip, cons_monzo_list) ==
    {[success |-> FALSE, x |-> CHOOSE x \in GenCands(Rows(vals)) : TRUE]}
    \cup {[success |-> TRUE, x |-> x] : x \in
            {g \in GenCands(Rows(vals)) :
                \/ cons_monzo_list = None
                \/ \A k \in 1..Cols(cons_monzo_list[1]) :
                        ConstraintFun(g, vals, jip, cons_monzo_list[1])[k] = R(0)}}

\* mutant: res.x is taken whatever the solver reports
SolverVerdict_unchecked(sol) == [exc |-> "", gen |-> Some(sol.x)]

\* lines 83-86: the solver's verdict decides whether gen is set
SolverVerdict(sol) ==
    IF sol.success THEN [exc |-> "", gen |-> Some(sol.x)]
    ELSE [exc |-> "ValueError: infeasible optimization problem. ", gen |-> None]

\* np.asarray (des_monzo).ndim and .shape[1]
Ndim(a) == a.ndim

Shape1(a) == Cols(a.val)

\* mutant: the rescaling factor is inverted
Destretch_inverted(gen, vals, jip, des_monzo) ==
    IF des_monzo = None
    THEN [exc |-> "", gen |-> gen, tempered_size |-> None]
    ELSE LET d == des_monzo[1] IN
         IF d.ndim > 1 /\ Cols(d.val) # 1
         THEN [exc |-> "IndexError", gen |-> None, tempered_size |-> None]
         ELSE LET v == IF d.ndim > 1 THEN Column(d.val, 1) ELSE d.val IN
              IF Len(v) # Cols(vals)
              THEN [exc |-> "ValueError", gen |-> None, tempered_size |-> None]
              ELSE LET tempered_size == Dot(VecMat(gen, vals), v) IN
                   IF tempered_size = R(0)
                   THEN [exc |-> "ZeroDivisionError", gen |-> None,
                         tempered_size |-> Some(tempered_size)]
                   ELSE [exc |-> "",
                         gen |-> [i \in 1..Len(gen) |->
                                    RMul(gen[i], RDiv(tempered_size, Dot(jip, v)))],
                         tempered_size |-> Some(tempered_size)]

\* mutant: a target of several columns is read as its first column
Destretch_first_column(gen, vals, jip, des_monzo) ==
    IF des_monzo = None
    THEN [exc |-> "", gen |-> gen, tempered_size |-> None]
    ELSE LET d == des_monzo[1]
             v == IF d.ndim > 1 THEN Column(d.val, 1) ELSE d.val
         IN  IF Len(v) # Cols(vals)
             THEN [exc |-> "ValueError", gen |-> None, tempered_size |-> None]
             ELSE LET tempered_size == Dot(VecMat(gen, vals), v) IN
                  IF tempered_size = R(0)
                  THEN [exc |-> "ZeroDivisionError", gen |-> None,
                        tempered_size |-> Some(tempered_size)]
                  ELSE [exc |-> "",
                        gen |-> [i \in 1..Len(gen) |->
                                   RMul(gen[i], RDiv(Dot(jip, v), tempered_size))],
                        tempered_size |-> Some(tempered_size)]

\* mutant: the tempered size is not tested before the division
Destretch_unchecked(gen, vals, jip, des_monzo) ==
    IF des_monzo = None
    THEN [exc |-> "", gen |-> gen, tempered_size |-> None]
    ELSE LET d == des_monzo[1] IN
         IF d.ndim > 1 /\ Cols(d.val) # 1
         THEN [exc |-> "IndexError", gen |-> None, tempered_size |-> None]
         ELSE LET v == IF d.ndim > 1 THEN Column(d.val, 1) ELSE d.val IN
              IF Len(v) # Cols(vals)
              THEN [exc |-> "ValueError", gen |-> None, tempered_size |-> None]
              ELSE LET tempered_size == Dot(VecMat(gen, vals), v) IN
                   [exc |-> "",
                    gen |-> [i \in 1..Len(gen) |->
                               IF tempered_size = R(0) THEN inf
                               ELSE RMul(gen[i], RDiv(Dot(jip, v), tempered_size))],
                    tempered_size |-> Some(tempered_size)]

\* lines 88-94: gen after the destretch step, or the exception raised
Destretch(gen, vals, jip, des_monzo) ==
    IF des_monzo = None
    THEN [exc |-> "", gen |-> gen, tempered_size |-> None]
    ELSE LET d == des_monzo[1] IN
         IF Ndim(d) > 1 /\ Shape1(d) # 1
         THEN [exc |-> "IndexError", gen |-> None, tempered_size |-> None]
         ELSE LET v == IF Ndim(d) > 1 THEN Column(d.val, 1) ELSE d.val IN
              IF Len(v) # Cols(vals)
              THEN [exc |-> "ValueError", gen |-> None, tempered_size |-> None]
              ELSE LET tempered_size == Dot(VecMat(gen, vals), v) IN
                   IF tempered_size = R(0)
                   THEN [exc |-> "ZeroDivisionError", gen |-> None,
                         tempered_size |-> Some(tempered_size)]
                   ELSE [exc |-> "",
                         gen |-> [i \in 1..Len(gen) |->
                                    RMul(gen[i], RDiv(Dot(jip, v), tempered_size))],
                         tempered_size |-> Some(tempered_size)]

\* what a call leaves behind when it raises
Failure(exc, path, sol, sg, tempered_size, self, warn) ==
    [exc |-> exc, gen |-> None, tuning_map |-> None, mistuning_map |-> None,
     vals |-> sg.main, subgroup |-> sg.subgroup, path |-> path, sol |-> sol,
     tempered_size |-> tempered_size, self |-> self, warn |-> warn]

\* optimizer_main; sol is what the solver of the path taken reports
optimizer_main(vals0, subgroup0, norm0, cons_monzo_list, des_monzo, sol) ==
    LET sg == __get_subgroup(vals0, subgroup0)
        vals == sg.main
        subgroup == sg.subgroup
        jip == JustTuningMap(subgroup)
        \* vals_wx and jip_wx go to the solver only
        vals_wx == weightskewed_effect(Cols(vals), subgroup, norm0)
        jip_wx == weightskewed_effect(Len(jip), subgroup, vals_wx.self)
        warn == sg.warn \o vals_wx.warn
        lstsq == norm0.order = R(2) /\ cons_monzo_list = None
        path == IF lstsq THEN "lstsq" ELSE "minimize"
    IN
    IF vals_wx.exc # ""
    THEN Failure(vals_wx.exc, "", None, sg, None, vals_wx.self, warn)
    ELSE IF ~lstsq /\ cons_monzo_list # None /\ Rows(cons_monzo_list[1]) # Cols(vals)
    THEN Failure("ValueError", path, None, sg, None, jip_wx.self, warn)
    ELSE LET verdict == IF lstsq THEN [exc |-> "", gen |-> Some(sol.x)]
                        ELSE SolverVerdict(sol)
             reported == IF lstsq THEN None ELSE Some(sol.success) IN
         IF verdict.exc # ""
         THEN Failure(verdict.exc, path, reported, sg, None, jip_wx.self, warn)
         ELSE LET des == Destretch(verdict.gen[1], RatMat(vals), jip, des_monzo) IN
              IF des.exc # ""
              THEN Failure(des.exc, path, reported, sg, des.tempered_size,
                           jip_wx.self, warn)
              ELSE LET tuning_map == VecMat(des.gen, RatMat(vals)) IN
                   [exc |-> "", gen |-> Some(des.gen), tuning_map |-> Some(tuning_map),
                    mistuning_map |-> Some([j \in 1..Len(jip) |-> RSub(tuning_map[j], jip[j])]),
                    vals |-> vals, subgroup |-> subgroup, path |-> path,
                    sol |-> reported, tempered_size |-> des.tempered_size,
                    self |-> jip_wx.self, warn |-> warn]

\* ------------------------------------------------------------ class NormSym
\* NormSym.__init__: a copy of the norm's four fields
NormSym(norm0) == Norm(norm0.wtype, norm0.wamount, norm0.skew, norm0.order)

\* NormSym.__get_interval_weight_sym; the default arm calls
\* self.__get_weight_sym, a method no class defines
__get_interval_weight_sym(self, primes) ==
    IF self.wtype = "tenney"
    THEN Returned(self, Diag([i \in 1..Len(primes) |-> RPow(Log2(primes[i]), self.wamount)]),
                  <<WARN_TRANSCENDENTAL>>)
    ELSE IF self.wtype = "wilson" \/ self.wtype = "benedetti"
    THEN Returned(self, Diag([i \in 1..Len(primes) |-> RPow(R(primes[i]), self.wamount)]), <<>>)
    ELSE IF self.wtype = "equilateral"
    THEN Returned(self, Diag([i \in 1..Len(primes) |-> RPow(R(1), self.wamount)]), <<>>)
    ELSE Raised([self EXCEPT !.wtype = "tenney"], "AttributeError", <<WARN_WEIGHTER>>)

\* ------------------------------------------------------- optimizer_symbolic
\* te.ratio2monzo over the target: the exponent of each basis prime
RECURSIVE Exponent(_, _)
Exponent(k, q) == IF k % q # 0 THEN 0 ELSE 1 + Exponent(k \div q, q)

ratio2monzo(ratio, target) ==
    [i \in 1..Len(target) |-> R(Exponent(ratio.num, target[i]) - Exponent(ratio.den, target[i]))]

\* lines 203-208: the tempered tuning map just_tuning_map @ tuning_projection
\* after the destretch step, or the exception raised
DestretchSym(tempered_tuning_map, just_tuning_map, destretch, target) ==
    IF destretch = None
    THEN [exc |-> "", tuning |-> tempered_tuning_map, tempered_size |-> None]
    ELSE LET des_monzo == ratio2monzo(destretch[1], target)
             tempered_size == Dot(tempered_tuning_map, des_monzo)
         IN  IF tempered_size = R(0)
             THEN [exc |-> "ZeroDivisionError", tuning |-> None,
                   tempered_size |-> Some(tempered_size)]
             ELSE [exc |-> "",
                   tuning |-> [j \in 1..Len(tempered_tuning_map) |->
                        RMul(tempered_tuning_map[j],
                             RDiv(Dot(just_tuning_map, des_monzo), tempered_size))],
                   tempered_size |-> Some(tempered_size)]

FailureSym(exc, breeds, target, tempered_size, self, warn) ==
    [exc |-> exc, gen |-> None, tuning_map |-> None, mistuning_map |-> None,
     vals |-> breeds, subgroup |-> target, path |-> "sym", sol |-> None,
     tempered_size |-> tempered_size, self |-> self, warn |-> warn]

\* optimizer_symbolic on a mapping and a target of one dimension; x is the
\* generator map of the projection the algebra finds: the tuning map
\* just_tuning_map @ tuning_projection is x @ breeds
optimizer_symbolic(breeds, target, norm0, constraint, destretch, x) ==
    LET self == NormSym(norm0)
        just_tuning_map == JustTuningMap(target)
        weight == __get_interval_weight_sym(self, target)
        solved == VecMat(x, RatMat(breeds))
    IN
    IF self.order # R(2)
    THEN FailureSym("ValueError", breeds, target, None, norm0, <<>>)
    ELSE IF weight.exc # ""
    THEN FailureSym(weight.exc, breeds, target, None, norm0, weight.warn)
    ELSE LET des == DestretchSym(solved, just_tuning_map, destretch, target) IN
         IF des.exc # ""
         THEN FailureSym(des.exc, breeds, target, des.tempered_size, norm0, weight.warn)
         ELSE LET scale == IF des.tempered_size = None THEN R(1)
                           ELSE RDiv(Dot(just_tuning_map, ratio2monzo(destretch[1], target)),
                                     des.tempered_size[1])
              IN  [exc |-> "",
                   gen |-> Some([i \in 1..Len(x) |-> RMul(x[i], scale)]),
                   tuning_map |-> Some(des.tuning),
                   mistuning_map |-> Some([j \in 1..Len(target) |->
                        RSub(des.tuning[j], just_tuning_map[j])]),
                   vals |-> breeds, subgroup |-> target, path |-> "sym", sol |-> None,
                   tempered_size |-> des.tempered_size, self |-> norm0, warn |-> weight.warn]

\* --------------------------------------------------------- Temperament.tune
WARN_NO_SYMBOLIC == "Module te_symbolic.py not found. Using main optimizer. "

WARN_NOT_EUCLIDEAN == "Condition for symbolic solution not met. Using main optimizer. "

DIGITS == <<"0", "1", "2", "3", "4", "5", "6", "7", "8", "9">>

IsDigit(ch) == \E k \in 1..Len(DIGITS) : DIGITS[k] = ch

DigitValue(ch) == (CHOOSE k \in 1..Len(DIGITS) : DIGITS[k] = ch) - 1

\* int (digits) for a text of digits, given as the sequence of its characters
RECURSIVE IntOf(_)
IntOf(digits) ==
    IF Len(digits) = 0 THEN 0
    ELSE 10 * IntOf(SubSeq(digits, 1, Len(digits) - 1)) + DigitValue(digits[Len(digits)])

\* the last index of the run of digits that starts at i
RECURSIVE DigitRunEnd(_, _)
DigitRunEnd(text, i) ==
    IF i + 1 <= Len(text) /\ IsDigit(text[i + 1]) THEN DigitRunEnd(text, i + 1) ELSE i

\* re.findall ("[cd]\d+", text) from index i on: the matches, left to right
RECURSIVE FindAll(_, _)
FindAll(text, i) ==
    IF i > Len(text) THEN <<>>
    ELSE IF text[i] \in {"c", "d"} /\ i + 1 <= Len(text) /\ IsDigit(text[i + 1])
    THEN LET j == DigitRunEnd(text, i + 1)
         IN  <<SubSeq(text, i, j)>> \o FindAll(text, j + 1)
    ELSE FindAll(text, i + 1)

\* mutant: the symbolic solver is taken to be available for every norm
check_sym_unchecked(order, import_ok) == [ok |-> TRUE, warn |-> <<>>]

\* Temperament.__check_sym: whether the symbolic solver is used
__check_sym(order, import_ok) ==
    IF order = R(2)
    THEN IF import_ok THEN [ok |-> TRUE, warn |-> <<>>]
         ELSE [ok |-> FALSE, warn |-> <<WARN_NO_SYMBOLIC>>]
    ELSE [ok |-> FALSE, warn |-> <<WARN_NOT_EUCLIDEAN>>]

\* Temperament.__get_enforce_vec
__get_enforce_vec(subgroup, enforce_index, norm0, optimizer) ==
    IF optimizer = "main"
    THEN IF enforce_index = 0
         THEN CHOOSE out \in
                {IF weightskew.exc # "" THEN weightskew
                 ELSE [weightskew EXCEPT !.value =
                        [i \in 1..Len(subgroup) |->
                            SumTo(weightskew.value[i], Len(weightskew.value[i]))]] :
                    weightskew \in {weightskewed(Eye(Len(subgroup)), subgroup, norm0)}} : TRUE
         ELSE Returned(norm0, [i \in 1..Len(subgroup) |->
                                IF i - 1 = enforce_index - 1 THEN R(1) ELSE R(0)], <<>>)
    ELSE IF enforce_index = 0
         THEN Raised(norm0, "TypeError", <<>>)
         ELSE Returned(norm0, [i \in 1..Len(subgroup) |->
                                IF i - 1 = enforce_index - 1 THEN R(1) ELSE R(0)], <<>>)

\* self.subgroup[k] of the header text: a Python index, negative from the end
PyIndexOk(list, k) == -Len(list) <= k /\ k < Len(list)

\* lines 108-114: the enforcements in textual order, from the k-th on
RECURSIVE EnforceLoop(_, _, _, _, _)
EnforceLoop(subgroup, optimizer, enforce_spec_list, k, acc) ==
    IF k > Len(enforce_spec_list) \/ acc.exc # "" THEN acc
    ELSE LET entry == enforce_spec_list[k]
             digits == SubSeq(entry, 2, Len(entry))
             text_ok == digits = <<"0">> \/ PyIndexOk(subgroup, IntOf(digits) - 1)
             step(vec) ==
                IF vec.exc # ""
                THEN [acc EXCEPT !.exc = vec.exc, !.self = vec.self, !.warn = @ \o vec.warn]
                ELSE IF ~text_ok
                THEN [acc EXCEPT !.exc = "IndexError", !.self = vec.self,
                                 !.warn = @ \o vec.warn,
                                 !.cons = IF entry[1] = "c" THEN Append(@, vec.value) ELSE @,
                                 !.des = IF entry[1] = "c" THEN @ ELSE Append(@, vec.value)]
                ELSE [acc EXCEPT !.self = vec.self, !.warn = @ \o vec.warn,
                                 !.cons = IF entry[1] = "c" THEN Append(@, vec.value) ELSE @,
                                 !.des = IF entry[1] = "c" THEN @ ELSE Append(@, vec.value)]
         IN  CHOOSE out \in
                {EnforceLoop(subgroup, optimizer, enforce_spec_list, k + 1, acc1) : acc1 \in
                    {step(vec) : vec \in
                        {__get_enforce_vec(subgroup, IntOf(digits), acc.self, optimizer)}}} : TRUE

\* np.column_stack of a non-empty list of vectors of one length
column_stack(list) == [i \in 1..Len(list[1]) |-> [k \in 1..Len(list) |-> list[k][i]]]

\* lines 101-127: the constraint list and the destretch target handed to the
\* optimizer, or the exception raised on the way
get_enforcements(subgroup, optimizer, norm0, enforce0, cons_monzo_list, des_monzo) ==
    LET enforce == IF enforce0 = <<"c">> THEN <<"c", "1">>
                   ELSE IF enforce0 = <<"d">> THEN <<"d", "1">>
                   ELSE enforce0
        enforce_spec_list == FindAll(enforce, 1)
    IN
    IF cons_monzo_list = None /\ des_monzo = None
    THEN IF Len(enforce_spec_list) > 0
         THEN CHOOSE out \in
                {[exc |-> acc.exc, self |-> acc.self, warn |-> acc.warn,
                  cons_monzo_list |-> IF acc.exc = "" /\ Len(acc.cons) > 0
                                      THEN Some(column_stack(acc.cons)) ELSE None,
                  des_monzo |-> IF acc.exc = "" /\ Len(acc.des) > 0
                                THEN Some([ndim |-> 2, val |-> column_stack(acc.des)])
                                ELSE None,
                  enforce_text |-> "parsed"] : acc \in
                    {EnforceLoop(subgroup, optimizer, enforce_spec_list, 1,
                                 [exc |-> "", self |-> norm0, warn |-> <<>>,
                                  cons |-> <<>>, des |-> <<>>])}} : TRUE
         ELSE [exc |-> "", self |-> norm0, warn |-> <<>>, cons_monzo_list |-> None,
               des_monzo |-> None, enforce_text |-> "none"]
    ELSE [exc |-> "", self |-> norm0, warn |-> <<>>, cons_monzo_list |-> cons_monzo_list,
          des_monzo |-> des_monzo, enforce_text |-> "custom"]

\* Temperament.tune on the temperament t; import_ok: te_symbolic can be
\* imported; sol: what the numeric solver reports
tune(t, optimizer0, norm0, enforce, cons_monzo_list, des_monzo, import_ok, sol) ==
    LET check == IF optimizer0 = "sym" THEN __check_sym(norm0.order, import_ok)
                 ELSE [ok |-> TRUE, warn |-> <<>>]
        optimizer == IF check.ok THEN optimizer0 ELSE "main"
        fallbacks == IF check.ok THEN 0 ELSE 1
        sg == [main |-> t.vals, subgroup |-> t.subgroup]
        \* lines 129-153, after the enforcements enf were got
        optimization(enf) ==
            LET \* what tune hands on, and whether it came to call optimizer_main
                passed == [optimizer |-> optimizer, fallbacks |-> fallbacks,
                           cons_monzo_list |-> enf.cons_monzo_list,
                           des_monzo |-> enf.des_monzo,
                           enforce_text |-> enf.enforce_text,
                           called |-> enf.exc = "" /\ optimizer = "main"]
            IN
            IF enf.exc # ""
            THEN Failure(enf.exc, "", None, sg, None, enf.self, check.warn \o enf.warn) @@ passed
            ELSE IF optimizer = "main"
            THEN LET out == optimizer_main(t.vals, Some(t.subgroup), enf.self,
                                           enf.cons_monzo_list, enf.des_monzo, sol)
                 IN  [out EXCEPT !.warn = check.warn \o enf.warn \o @] @@ passed
            ELSE \* te_sym.symbolic: te_symbolic defines no such name
                 Failure("AttributeError", "", None, sg, None, enf.self,
                         check.warn \o enf.warn) @@ passed
    IN  CHOOSE out \in {optimization(enf) : enf \in
                {get_enforcements(t.subgroup, optimizer, norm0, enforce,
                                  cons_monzo_list, des_monzo)}} : TRUE

\* ------------------------------------------------- temperament measures
WARN_NORMALIZER == "normalizer not supported, using default (\"breed\")"

\* what a measure raises when the norm is not Euclidean
NOT_EUCLIDEAN == "NotImplementedError"

\* np.nan
nan == [nan |-> TRUE]

\* lo, lo + 1, ..., hi, each put in front of every tuple of Tails[i]
RECURSIVE Prefixed(_, _, _)
Prefixed(lo, hi, Tails) ==
    IF lo > hi THEN <<>>
    ELSE [k \in 1..Len(Tails[lo]) |-> <<lo>> \o Tails[lo][k]] \o Prefixed(lo + 1, hi, Tails)

\* itertools.combinations (range (lo, n + 1), r): the tuples in lexicographic
\* order (columns are counted from 1)
RECURSIVE combinations(_, _, _)
combinations(lo, n, r) ==
    IF r = 0 THEN <<<<>>>>
    ELSE Prefixed(lo, n - r + 1, [i \in 1..n |-> combinations(i + 1, n, r - 1)])

\* M without its first row and its j-th column
Minor(M, j) ==
    [i \in 1..(Len(M) - 1) |->
        [k \in 1..(Len(M) - 1) |-> M[i + 1][IF k < j THEN k ELSE k + 1]]]

\* linalg.det of a square matrix, expanded along the first row
RECURSIVE Det(_)
Det(M) ==
    IF Len(M) = 0 THEN R(1)
    ELSE SumTo([j \in 1..Len(M) |->
                    RMul(IF j % 2 = 1 THEN M[1][j] ELSE RSub(R(0), M[1][j]),
                         Det(Minor(M, j)))], Len(M))

\* main[:, entry]
TakeCols(main, entry) == [i \in 1..Len(main) |-> [k \in 1..Len(entry) |-> main[i][entry[k]]]]

\* mutant: the wedgie is left in the orientation of the mapping
copysign_ignored(x, zero_sign) == 1

\* np.copysign (1, x); zero_sign is the sign of a float zero
copysign(x, zero_sign) == IF x.n < 0 THEN -1 ELSE IF x.n > 0 THEN 1 ELSE zero_sign

\* the determinants of the maximal minors of the weight-skewed mapping, one
\* per combination of columns
maximal_minors(vals_wx, combination_list) ==
    [k \in 1..Len(combination_list) |-> Det(TakeCols(vals_wx, combination_list[k]))]

\* Temperament.wedgie on the temperament t
wedgie(t, norm0, zero_sign) ==
    LET combination_list == combinations(1, Cols(t.vals), Rows(t.vals))
        normalized(wx) ==
            IF wx.exc # "" THEN wx
            ELSE IF Len(combination_list) = 0 THEN Raised(wx.self, "IndexError", wx.warn)
            ELSE LET dets == maximal_minors(wx.value, combination_list)
                     sign == copysign(dets[1], zero_sign)
                 IN  Returned(wx.self,
                              [k \in 1..Len(dets) |-> RMul(dets[k], R(sign))], wx.warn)
    IN  CHOOSE out \in {normalized(wx) : wx \in
                {weightskewed(RatMat(t.vals), t.subgroup, norm0)}} : TRUE

\* the standard L2 complexity or error of t under the norm, a real number
\* that is not computed here
L2(measure, t, self) == [measure |-> measure, vals |-> t.vals, subgroup |-> t.subgroup,
                         norm |-> self]

\* a measure's value: the L2 quantity times the square root of scale_sq
Scaled(l2, scale_sq) == [l2 |-> l2, scale_sq |-> scale_sq]

\* an outcome of a measure; fallbacks counts the recursive calls
Measured(out, fallbacks) == out @@ [fallbacks |-> fallbacks]

\* mutant: an unknown normalizer is read as "none"
NTYPE_UNSCALED == "none"

\* the normalizer an unknown one is replaced by
NTYPE_DEFAULT == "breed"

\* Temperament.complexity on the temperament t
RECURSIVE complexity(_, _, _)
complexity(t, ntype, norm0) ==
    IF norm0.order # R(2) THEN Measured(Raised(norm0, NOT_EUCLIDEAN, <<>>), 0)
    ELSE LET wx == weightskewed_effect(Cols(t.vals), t.subgroup, norm0)
             l2 == L2("complexity", t, wx.self)
             n == Cols(t.vals)
             r == Rows(t.vals)
         IN  IF wx.exc # "" THEN Measured(wx, 0)
             ELSE IF ntype = "breed"
             THEN Measured(Returned(wx.self, Scaled(l2, RDiv(R(1), RPow(R(n), r))), wx.warn), 0)
             ELSE IF ntype = "smith"
             THEN Measured(Returned(wx.self,
                    Scaled(l2, RDiv(R(1), R(Len(combinations(1, n, r))))), wx.warn), 0)
             ELSE IF ntype = "none"
             THEN Measured(Returned(wx.self, Scaled(l2, R(1)), wx.warn), 0)
             ELSE LET rec == complexity(t, NTYPE_DEFAULT, wx.self)
                  IN  [rec EXCEPT !.warn = wx.warn \o <<WARN_NORMALIZER>> \o @,
                                  !.fallbacks = @ + 1]

\* mutant: the error is taken whatever the order of the norm
error_order_unchecked(t, ntype, norm0) ==
    Measured(Returned(norm0, Scaled(L2("error", t, norm0), RDiv(R(1), R(Cols(t.vals)))), <<>>), 0)

\* Temperament.error on the temperament t
RECURSIVE error(_, _, _)
error(t, ntype, norm0) ==
    IF norm0.order # R(2) THEN Measured(Raised(norm0, NOT_EUCLIDEAN, <<>>), 0)
    ELSE LET wx == weightskewed_effect(Cols(t.vals), t.subgroup, norm0)
             l2 == L2("error", t, wx.self)
             n == Cols(t.vals)
             r == Rows(t.vals)
         IN  IF wx.exc # "" THEN Measured(wx, 0)
             ELSE IF ntype = "breed"
             THEN Measured(Returned(wx.self, Scaled(l2, RDiv(R(1), R(n))), wx.warn), 0)
             ELSE IF ntype = "smith"
             THEN Measured(Returned(wx.self,
                    IF n - r = 0 THEN nan ELSE Scaled(l2, Rat(r + 1, n - r)), wx.warn), 0)
             ELSE IF ntype = "none"
             THEN Measured(Returned(wx.self, Scaled(l2, R(1)), wx.warn), 0)
             ELSE LET rec == error(t, NTYPE_DEFAULT, wx.self)
                  IN  [rec EXCEPT !.warn = wx.warn \o <<WARN_NORMALIZER>> \o @,
                                  !.fallbacks = @ + 1]

\* error * complexity**exponent / 1200 once both were computed
Product(e, c, exponent) ==
    IF c.exc # "" THEN [c EXCEPT !.warn = e.warn \o @]
    ELSE Measured(Returned(c.self,
            IF exponent = nan THEN nan
            ELSE [error |-> e.value, complexity |-> c.value, exponent |-> exponent,
                  per |-> SCALAR],
            e.warn \o c.warn),
         IF e.fallbacks > c.fallbacks THEN e.fallbacks ELSE c.fallbacks)

\* Temperament.badness on the temperament t
badness(t, ntype, norm0) ==
    CHOOSE out \in
        {IF e.exc # "" THEN e
         ELSE CHOOSE p \in {Product(e, c, R(1)) : c \in {complexity(t, ntype, e.self)}} : TRUE :
            e \in {error(t, ntype, norm0)}} : TRUE

\* Temperament.badness_logflat on the temperament t
badness_logflat(t, ntype, norm0) ==
    LET n == Cols(t.vals)
        r == Rows(t.vals)
    IN  CHOOSE out \in
        {IF e.exc # "" THEN e
         ELSE CHOOSE p \in {Product(e, c, IF n - r = 0 THEN nan ELSE Rat(n, n - r)) :
                                c \in {complexity(t, ntype, e.self)}} : TRUE :
            e \in {error(t, ntype, norm0)}} : TRUE

\* ---------------------------------------------------- temperament lattice
\* mutant: an interval is put before the intervals of equal norm
insert_before_equal(sorted, entry) ==
    LET pos == Cardinality({k \in 1..Len(sorted) : sorted[k].norm < entry.norm})
    IN  SubSeq(sorted, 1, pos) \o <<entry>> \o SubSeq(sorted, pos + 1, Len(sorted))

\* one step of list.sort (key = lambda k: k[1]): the entry goes behind the
\* entries whose key is not greater
insert(sorted, entry) ==
    LET pos == Cardinality({k \in 1..Len(sorted) : sorted[k].norm <= entry.norm})
    IN  SubSeq(sorted, 1, pos) \o <<entry>> \o SubSeq(sorted, pos + 1, Len(sorted))

\* spectrum.sort (key = lambda k: k[1]) of the first n entries
RECURSIVE sort(_, _)
sort(spectrum, n) ==
    IF n = 0 THEN <<>> ELSE insert(sort(spectrum, n - 1), spectrum[n])

\* TemperamentLattice.find_complexity_spectrum: norms[i] is the temperamental
\* norm find_temperamental_norm gives the i-th of the intervals
find_complexity_spectrum(norms) ==
    LET spectrum == [i \in 1..Len(norms) |-> [monzo |-> i, norm |-> norms[i]]]
    IN  sort(spectrum, Len(spectrum))

\* ------------------------------------------------------------ input sets
WTYPES == {"tenney", "wilson", "benedetti", "equilateral", "hahn24"}

SKEWS == {R(k) : k \in 0..MaxSkew} \cup {inf}

ORDERS == {R(k) : k \in 1..MaxOrder} \cup {inf}

Norms == {Norm(w, a, s, o) : w \in WTYPES, a \in 1..MaxWamount, s \in SKEWS, o \in ORDERS}

Subgroups == {<<2, 3>>, <<2, 3, 5>>, <<2, 3, 5, 7>>, <<2, 5, 7>>}

\* meantone over 2.3.5
MEANTONE == <<<<1, 0, -4>>, <<0, 1, 4>>>>

\* the 12-tone equal temperament val over the first n primes
ET12(n) == <<[j \in 1..n |-> IF j <= Len(LOG2_STEPS) THEN (24 * LOG2_STEPS[j] + 29) \div 58
                              ELSE 55 + j]>>

\* a 1-D and a 2-D array of numbers
Array1(v) == [ndim |-> 1, val |-> RatVec(v)]

Array2(M) == [ndim |-> 2, val |-> RatMat(M)]

SubgroupOpts == {None, Some(<<2, 3, 5>>), Some(<<2, 3>>), Some(<<2, 3, 5, 7>>)}

\* constraint lists, one monzo per column
ConsOpts == {None,
             Some(RatMat(<<<<1>>, <<0>>, <<0>>>>)),
             Some(RatMat(<<<<1, 0>>, <<0, 1>>, <<0, 0>>>>)),
             Some(RatMat(<<<<1>>, <<0>>>>))}

\* destretch targets: vectors, one-column and two-column matrices; 81/80 is
\* tempered out by MEANTONE and by ET12
DesOpts == {None,
            Some(Array1(<<1, 0, 0>>)),
            Some(Array1(<<0, 1, 0>>)),
            Some(Array1(<<-4, 4, -1>>)),
            Some(Array1(<<1, 0>>)),
            Some(Array2(<<<<1>>, <<0>>, <<0>>>>)),
            Some(Array2(<<<<-4>>, <<4>>, <<-1>>>>)),
            Some(Array2(<<<<1, 0>>, <<0, 1>>, <<0, 0>>>>))}

Ratio(num, den) == [num |-> num, den |-> den]

\* calls of optimizer_symbolic: 81/80 is tempered out, 2/1 and 3/2 are not
SymCalls ==
    {[breeds |-> b, target |-> <<2, 3, 5>>, constraint |-> c, destretch |-> d] :
        b \in {MEANTONE, ET12(3)},
        c \in {None, Some(RatMat(<<<<1>>, <<0>>, <<0>>>>))},
        d \in {None, Some(Ratio(2, 1)), Some(Ratio(3, 2)), Some(Ratio(81, 80))}}

\* the generator maps the projection algebra may find: with a constraint
\* the constrained intervals are tuned pure
SymResults(c) ==
    {x \in GenCands(Rows(c.breeds)) :
        \/ c.constraint = None
        \/ \A k \in 1..Cols(c.constraint[1]) :
                ConstraintFun(x, RatMat(c.breeds), JustTuningMap(c.target), c.constraint[1])[k] = R(0)}

MainCalls ==
    {[vals |-> v, subgroup |-> s, cons_monzo_list |-> c, des_monzo |-> d] :
        v \in {MEANTONE, ET12(3)}, s \in SubgroupOpts, c \in ConsOpts, d \in DesOpts}
    \cup {[vals |-> ET12(n), subgroup |-> None, cons_monzo_list |-> None, des_monzo |-> None] :
        n \in 1..MaxCols}

\* what the solver may report in a call (one result when the call's shapes
\* keep the solver from running)
SolverOutcomes(c) ==
    LET sg == __get_subgroup(c.vals, c.subgroup)
        cons == c.cons_monzo_list
    IN  IF Cols(sg.main) # Len(sg.subgroup) \/ (cons # None /\ Rows(cons[1]) # Cols(sg.main))
        THEN {[success |-> FALSE, x |-> CHOOSE x \in GenCands(Rows(sg.main)) : TRUE]}
        ELSE SolverResults(RatMat(sg.main), JustTuningMap(sg.subgroup), cons)

\* a Temperament: its canonical mapping and its subgroup
Temperaments == {[vals |-> MEANTONE, subgroup |-> <<2, 3, 5>>]}

\* enforce texts, each the sequence of its characters
EnforceTexts == {<<>>, <<"c">>, <<"d">>, <<"c", "1">>, <<"d", "2">>, <<"c", "0">>,
                 <<"d", "1", "d", "2">>, <<"c", "1", "d", "2">>, <<"c", "1", " ", "c", "2">>,
                 <<"d", "4">>, <<"c", "d">>}

TuneCalls ==
    {[t |-> t, optimizer |-> o, enforce |-> e, cons_monzo_list |-> None, des_monzo |-> None,
      import_ok |-> i] :
        t \in Temperaments, o \in {"main", "sym"}, e \in EnforceTexts, i \in BOOLEAN}
    \cup {[t |-> t, optimizer |-> "main", enforce |-> <<"d", "1", "d", "2">>,
            cons_monzo_list |-> c, des_monzo |-> d, import_ok |-> TRUE] :
        t \in Temperaments,
        c \in {None, Some(RatMat(<<<<1>>, <<0>>, <<0>>>>))},
        d \in {None, Some(Array1(<<0, 1, 0>>))}}

\* what the numeric solver may report in a call of tune
TuneSolverOutcomes(c, norm0) ==
    LET optimizer == IF c.optimizer = "sym" /\ ~__check_sym(norm0.order, c.import_ok).ok
                     THEN "main" ELSE c.optimizer
    IN  UNION {SolverOutcomes(call) : call \in
            {[vals |-> c.t.vals, subgroup |-> Some(c.t.subgroup),
              cons_monzo_list |-> enf.cons_monzo_list] : enf \in
                {get_enforcements(c.t.subgroup, optimizer, norm0, c.enforce,
                                  c.cons_monzo_list, c.des_monzo)}}}

\* normalizer types; "rms" is not one the measures know
NTYPES == {"breed", "smith", "none", "rms"}

\* temperaments the wedgie is taken of, built with and without the
\* normalization of the mapping's signs: of rank 1 over 2.3.5 and of rank 2
\* over 2.3, whose minors stay in TLC's range of integers under every norm
WedgieTemperaments ==
    {[vals |-> ET12(3), subgroup |-> <<2, 3, 5>>],
     [vals |-> <<<<-12, -19, -28>>>>, subgroup |-> <<2, 3, 5>>],
     [vals |-> <<<<0, 19, 28>>>>, subgroup |-> <<2, 3, 5>>],
     [vals |-> <<<<1, 0>>, <<0, 1>>>>, subgroup |-> <<2, 3>>],
     [vals |-> <<<<0, 1>>, <<1, 0>>>>, subgroup |-> <<2, 3>>]}

\* temperaments the other measures are taken of
MeasureTemperaments == Temperaments \cup WedgieTemperaments

\* the temperamental norms of the intervals given, in the order given
SpectrumNorms == UNION {[1..n -> {0, 1}] : n \in 0..MaxIntervals}

\* ----------------------------------------------------------------- actions
Init ==
    /\ norm \in Norms
    /\ norm_sym = norm
    /\ op = "idle"
    /\ args = None
    /\ res = None
    /\ warned = <<>>

\* norm.__get_weight (subgroup)
get_weight ==
    /\ op = "idle"
    /\ \E subgroup \in Subgroups :
           \E out \in {__get_weight(norm, subgroup)} :
           /\ op' = "get_weight"
           /\ args' = [self |-> norm, subgroup |-> subgroup]
           /\ norm' = out.self
           /\ res' = out
           /\ warned' = out.warn
           /\ UNCHANGED norm_sym

\* norm.__get_skew (subgroup)
get_skew ==
    /\ op = "idle"
    /\ \E subgroup \in Subgroups :
           \E out \in {__get_skew(norm, subgroup)} :
           /\ op' = "get_skew"
           /\ args' = [self |-> norm, subgroup |-> subgroup]
           /\ norm' = out.self
           /\ res' = out
           /\ warned' = out.warn
           /\ UNCHANGED norm_sym

\* optimizer_main (vals, subgroup, norm, cons_monzo_list, des_monzo)
OptimizerMain ==
    /\ op = "idle"
    /\ \E c \in MainCalls : \E sol \in SolverOutcomes(c) :
           \E out \in {optimizer_main(c.vals, c.subgroup, norm, c.cons_monzo_list, c.des_monzo, sol)} :
           /\ op' = "optimizer_main"
           /\ args' = [self |-> norm, call |-> c]
           /\ norm' = out.self
           /\ res' = out
           /\ warned' = out.warn
           /\ UNCHANGED norm_sym

\* norm_sym.__get_interval_weight_sym (primes)
get_interval_weight_sym ==
    /\ op = "idle"
    /\ \E primes \in Subgroups :
           \E out \in {__get_interval_weight_sym(norm_sym, primes)} :
           /\ op' = "get_interval_weight_sym"
           /\ args' = [self |-> norm_sym, subgroup |-> primes]
           /\ norm_sym' = out.self
           /\ res' = out
           /\ warned' = out.warn
           /\ UNCHANGED norm

\* optimizer_symbolic (breeds, target, norm, constraint, destretch)
OptimizerSymbolic ==
    /\ op = "idle"
    /\ \E c \in SymCalls : \E x \in SymResults(c) :
           \E out \in {optimizer_symbolic(c.breeds, c.target, norm, c.constraint, c.destretch, x)} :
           /\ op' = "optimizer_symbolic"
           /\ args' = [self |-> norm, call |-> c]
           /\ res' = out
           /\ warned' = out.warn
           /\ UNCHANGED <<norm, norm_sym>>

\* t.tune (optimizer, norm, enforce, cons_monzo_list, des_monzo)
Tune ==
    /\ op = "idle"
    /\ \E c \in TuneCalls : \E sol \in TuneSolverOutcomes(c, norm) :
           \E out \in {tune(c.t, c.optimizer, norm, c.enforce, c.cons_monzo_list, c.des_monzo,
                           c.import_ok, sol)} :
           /\ op' = "tune"
           /\ args' = [self |-> norm, call |-> c]
           /\ norm' = out.self
           /\ res' = out
           /\ warned' = out.warn
           /\ UNCHANGED norm_sym

\* t.wedgie (norm)
Wedgie ==
    /\ op = "idle"
    /\ \E t \in WedgieTemperaments : \E zero_sign \in {-1, 1} :
           \E out \in {wedgie(t, norm, zero_sign)} :
           /\ op' = "wedgie"
           /\ args' = [self |-> norm, t |-> t]
           /\ norm' = out.self
           /\ res' = out
           /\ warned' = out.warn
           /\ UNCHANGED norm_sym

\* t.complexity (ntype, norm)
Complexity ==
    /\ op = "idle"
    /\ \E t \in MeasureTemperaments : \E ntype \in NTYPES :
           \E out \in {complexity(t, ntype, norm)} :
           /\ op' = "complexity"
           /\ args' = [self |-> norm, t |-> t, ntype |-> ntype]
           /\ norm' = out.self
           /\ res' = out
           /\ warned' = out.warn
           /\ UNCHANGED norm_sym

\* t.error (ntype, norm)
Error ==
    /\ op = "idle"
    /\ \E t \in MeasureTemperaments : \E ntype \in NTYPES :
           \E out \in {error(t, ntype, norm)} :
           /\ op' = "error"
           /\ args' = [self |-> norm, t |-> t, ntype |-> ntype]
           /\ norm' = out.self
           /\ res' = out
           /\ warned' = out.warn
           /\ UNCHANGED norm_sym

\* t.badness (ntype, norm)
Badness ==
    /\ op = "idle"
    /\ \E t \in MeasureTemperaments : \E ntype \in NTYPES :
           \E out \in {badness(t, ntype, norm)} :
           /\ op' = "badness"
           /\ args' = [self |-> norm, t |-> t, ntype |-> ntype]
           /\ norm' = out.self
           /\ res' = out
           /\ warned' = out.warn
           /\ UNCHANGED norm_sym

\* t.badness_logflat (ntype, norm)
BadnessLogflat ==
    /\ op = "idle"
    /\ \E t \in MeasureTemperaments : \E ntype \in NTYPES :
           \E out \in {badness_logflat(t, ntype, norm)} :
           /\ op' = "badness_logflat"
           /\ args' = [self |-> norm, t |-> t, ntype |-> ntype]
           /\ norm' = out.self
           /\ res' = out
           /\ warned' = out.warn
           /\ UNCHANGED norm_sym

\* lattice.find_complexity_spectrum (monzos, norm): the spectrum is printed
FindComplexitySpectrum ==
    /\ op = "idle"
    /\ \E norms \in SpectrumNorms :
           /\ op' = "find_complexity_spectrum"
           /\ args' = [self |-> norm, norms |-> norms]
           /\ res' = Returned(norm, None, <<>>) @@
                        [printed |-> find_complexity_spectrum(norms)]
           /\ warned' = <<>>
           /\ UNCHANGED <<norm, norm_sym>>

\* the caller takes the outcome of the call; the norm objects live on
Return ==
    /\ op # "idle"
    /\ op' = "idle"
    /\ args' = None
    /\ res' = None
    /\ warned' = <<>>
    /\ UNCHANGED <<norm, norm_sym>>

Next ==
    \/ Return
    \/ get_weight
    \/ get_skew
    \/ OptimizerMain
    \/ get_interval_weight_sym
    \/ OptimizerSymbolic
    \/ Tune

Spec == Init /\ [][Next]_vars

\* the calls of the operations of a Temperament and of a TemperamentLattice
NextTemperament ==
    \/ Return
    \/ Tune
    \/ Wedgie
    \/ Complexity
    \/ Error
    \/ Badness
    \/ BadnessLogflat
    \/ FindComplexitySpectrum

SpecTemperament == Init /\ [][NextTemperament]_vars


\* ------------------------------------------------------------------ claims
\* optimizer_main was called, directly or by tune
MainCalled == op = "optimizer_main" \/ (op = "tune" /\ res.called)

\* the constraint list and the destretch target optimizer_main was given
PassedCons == IF op = "tune" THEN res.cons_monzo_list ELSE args.call.cons_monzo_list

PassedDes == IF op = "tune" THEN res.des_monzo ELSE args.call.des_monzo

\* the destretch target as a vector
DesVec == IF PassedDes[1].ndim > 1 THEN Column(PassedDes[1].val, 1) ELSE PassedDes[1].val

ErrorMapMeetsConstraints ==
    \A k \in 1..Cols(PassedCons[1]) :
        Dot(res.mistuning_map[1], Column(PassedCons[1], k)) = R(0)

IsPrime(k) == k > 1 /\ \A m \in 2..(k - 1) : k % m # 0

\* the n smallest primes in ascending order
RECURSIVE FirstPrimes(_)
FirstPrimes(n) ==
    IF n = 0 THEN <<>>
    ELSE LET before == FirstPrimes(n - 1)
             from == IF n = 1 THEN 2 ELSE before[n - 1] + 1
         IN  Append(before, CHOOSE q \in from..(2 * from) :
                                IsPrime(q) /\ \A m \in from..(q - 1) : ~IsPrime(m))

\* C4: called without a subgroup on a mapping with n >= 1 columns, the
\* subgroup optimizer_main works on is the first n primes and has n entries.
C4_InferredSubgroupIsFirstPrimes ==
    (op = "optimizer_main" /\ args.call.subgroup = None /\ Cols(args.call.vals) >= 1) =>
        /\ res.subgroup = FirstPrimes(Cols(args.call.vals))
        /\ Len(res.subgroup) = Cols(args.call.vals)

NoResult == res.gen = None /\ res.tuning_map = None /\ res.mistuning_map = None

\* the mapping sends the monzo d to no generator steps
InNullspace(vals, d) == \A i \in 1..Rows(vals) : Dot(RatVec(vals[i]), d) = R(0)

\* C5: when the destretch target's tempered size is zero, optimizer_main and
\* optimizer_symbolic raise and return no generator map, tuning map or error
\* map; so does every call whose single target the mapping tempers out.
C5_ZeroTemperedSizeFails ==
    /\ (op \in {"optimizer_main", "tune", "optimizer_symbolic"}
            /\ res.tempered_size = Some(R(0)))
        => (res.exc = "ZeroDivisionError" /\ NoResult)
    /\ (MainCalled /\ PassedDes # None
            /\ (PassedDes[1].ndim = 1 \/ Cols(PassedDes[1].val) = 1)
            /\ Len(DesVec) = Cols(res.vals) /\ InNullspace(res.vals, DesVec))
        => (res.exc # "" /\ NoResult)
    /\ (op = "optimizer_symbolic" /\ args.call.destretch # None
            /\ InNullspace(args.call.breeds,
                           ratio2monzo(args.call.destretch[1], args.call.target)))
        => (res.exc # "" /\ NoResult)

\* the symbolic optimizer meets a target of tempered size zero
C5_Witness ==
    /\ op = "optimizer_symbolic"
    /\ args.call.destretch = Some(Ratio(81, 80))
    /\ res.tempered_size = Some(R(0))
    /\ res.exc = "ZeroDivisionError"

\* C6: a destretch target of more than one column makes optimizer_main
\* raise and return nothing, also when tune builds it from two or more
\* d<index> tokens; a vector or a one-column matrix is not refused.
C6_OneDestretchTargetOnly ==
    /\ (MainCalled /\ PassedDes # None
            /\ PassedDes[1].ndim = 2 /\ Cols(PassedDes[1].val) > 1)
        => (res.exc # "" /\ NoResult)
    /\ (MainCalled /\ PassedDes # None
            /\ (PassedDes[1].ndim = 1 \/ Cols(PassedDes[1].val) = 1))
        => res.exc # "IndexError"
    /\ (op = "tune" /\ res.called /\ res.enforce_text = "parsed"
            /\ Cardinality({k \in 1..Len(args.call.enforce) - 1 :
                    args.call.enforce[k] = "d" /\ IsDigit(args.call.enforce[k + 1])}) >= 2)
        => (PassedDes # None /\ Cols(PassedDes[1].val) >= 2 /\ res.exc # "" /\ NoResult)

\* tune hands the two targets of "d1d2" to optimizer_main, which refuses them
C6_Witness ==
    /\ op = "tune" /\ res.called
    /\ args.call.enforce = <<"d", "1", "d", "2">>
    /\ Cols(PassedDes[1].val) = 2
    /\ res.exc = "IndexError"

\* C7: on the general path a solver that reports failure makes the call
\* raise and return nothing, and a generator map comes back only when the
\* solver reported success.
C7_SolverFailureRaises ==
    (MainCalled /\ res.path = "minimize") =>
        /\ res.sol = Some(FALSE) =>
                (res.exc = "ValueError: infeasible optimization problem. " /\ NoResult)
        /\ res.gen # None => res.sol = Some(TRUE)

\* the solver of the general path reports failure
C7_Witness ==
    /\ MainCalled /\ res.path = "minimize" /\ res.sol = Some(FALSE)
    /\ res.exc = "ValueError: infeasible optimization problem. "

\* C8: the skew transform over a subgroup of length n is the n x n identity
\* when skew = 0, raises when skew # 0 and order # 2, and is otherwise an
\* n x (n+1) matrix.
C8_SkewTransformShape ==
    op = "get_skew" =>
        LET n == Len(args.subgroup) IN
        IF args.self.skew = R(0)
        THEN /\ res.exc = "" /\ Len(res.value) = n
             /\ \A i \in 1..n : Len(res.value[i]) = n
             /\ \A i \in 1..n : \A j \in 1..n :
                    res.value[i][j] = IF i = j THEN R(1) ELSE R(0)
        ELSE IF args.self.order # R(2)
        THEN res.exc # "" /\ res.value = None
        ELSE /\ res.exc = "" /\ Len(res.value) = n
             /\ \A i \in 1..n : Len(res.value[i]) = n + 1

\* an infinite skew under the Euclidean order gives n + 1 columns
C8_Witness ==
    /\ op = "get_skew" /\ args.self.skew = inf /\ args.self.order = R(2)
    /\ res.exc = ""
    /\ Len(res.value[1]) = Len(args.subgroup) + 1

SUPPORTED == {"tenney", "wilson", "benedetti", "equilateral"}

\* C9: for an unknown weighting kind Norm and NormSym both warn and return
\* the weight matrix of the tenney kind, without failing.
C9_UnknownKindFallsBackToTenney ==
    (op \in {"get_weight", "get_interval_weight_sym"} /\ args.self.wtype \notin SUPPORTED) =>
        /\ res.exc = ""
        /\ \E k \in 1..Len(warned) : warned[k] = WARN_WEIGHTER
        /\ res.value =
            IF op = "get_weight"
            THEN __get_weight([args.self EXCEPT !.wtype = "tenney"], args.subgroup).value
            ELSE __get_interval_weight_sym([args.self EXCEPT !.wtype = "tenney"],
                                           args.subgroup).value

Kept(before, after) ==
    /\ after.wamount = before.wamount
    /\ after.skew = before.skew
    /\ after.order = before.order
    /\ after.wtype = IF before.wtype \in SUPPORTED THEN before.wtype ELSE after.wtype
    /\ after.wtype \in {before.wtype, "tenney"}

MEASURES == {"wedgie", "complexity", "error", "badness", "badness_logflat"}

\* C11 as stated: every measure, the wedgie among them, raises
\* NotImplementedError and returns no value when the norm's order is not 2.
C11_EveryMeasureNeedsOrder2 ==
    (op \in MEASURES /\ args.self.order # R(2)) =>
        (res.exc = NOT_EUCLIDEAN /\ res.value = None)

\* C11 amended: complexity, error, badness and badness_logflat raise
\* NotImplementedError and return no value when the order is not 2, for
\* every weighting kind and skew; the wedgie raises it only when moreover
\* skew # 0, and is returned when skew = 0.
C11_MeasuresButWedgieNeedOrder2 ==
    (op \in MEASURES /\ args.self.order # R(2)) =>
        IF op = "wedgie" /\ args.self.skew = R(0)
        THEN res.exc = "" /\ res.value # None
        ELSE res.exc = NOT_EUCLIDEAN /\ res.value = None

\* badness_logflat was asked under a norm of order # 2 with no skew and an
\* unsupported weighting kind
C11_Witness ==
    /\ op = "badness_logflat"
    /\ args.self.order # R(2) /\ args.self.skew = R(0) /\ args.self.wtype \notin SUPPORTED
    /\ res.exc = NOT_EUCLIDEAN

NORMALIZERS == {"breed", "smith", "none"}

SCALED_MEASURES == MEASURES \ {"wedgie"}

\* the measure called name, as the call in progress would have it
Measure(name, t, ntype, norm0) ==
    CASE name = "complexity" -> complexity(t, ntype, norm0)
      [] name = "error" -> error(t, ntype, norm0)
      [] name = "badness" -> badness(t, ntype, norm0)
      [] name = "badness_logflat" -> badness_logflat(t, ntype, norm0)

Warnings(out) == {out.warn[i] : i \in DOMAIN out.warn}

\* C12 as stated: with an unknown normalizer, complexity, error, badness and
\* badness_logflat warn, do not fail, return the value of ntype = "breed",
\* and recurse one step.
C12_UnknownNormalizerIsBreed ==
    (op \in SCALED_MEASURES /\ args.ntype \notin NORMALIZERS) =>
        /\ res.exc = ""
        /\ WARN_NORMALIZER \in Warnings(res)
        /\ res.value = Measure(op, args.t, "breed", args.self).value
        /\ res.fallbacks = 1

\* C12 amended: with an unknown normalizer the four measures end as they do
\* for ntype = "breed" (same value or same exception, same norm left
\* behind); when the order is 2 they warn, do not fail and recurse one step,
\* when the order is not 2 they fail before any warning or recursion.
C12_UnknownNormalizerIsBreedAtOrder2 ==
    (op \in SCALED_MEASURES /\ args.ntype \notin NORMALIZERS) =>
        LET breed == Measure(op, args.t, "breed", args.self)
        IN  /\ res.exc = breed.exc
            /\ res.value = breed.value
            /\ res.self = breed.self
            /\ IF args.self.order = R(2)
               THEN /\ res.exc = ""
                    /\ res.value # None
                    /\ WARN_NORMALIZER \in Warnings(res)
                    /\ res.fallbacks = 1
               ELSE /\ res.exc = NOT_EUCLIDEAN
                    /\ WARN_NORMALIZER \notin Warnings(res)
                    /\ res.fallbacks = 0

\* badness was asked with an unknown normalizer under a Euclidean norm and
\* returned a number after its fallback
C12_Witness ==
    /\ op = "badness"
    /\ args.ntype \notin NORMALIZERS
    /\ args.self.order = R(2)
    /\ res.exc = "" /\ res.value # nan /\ res.value # None
    /\ res.fallbacks = 1

\* the maximal minors of the mapping of the wedgie call in progress
RawWedgie ==
    maximal_minors(weightskewed(RatMat(args.t.vals), args.t.subgroup, args.self).value,
                   combinations(1, Cols(args.t.vals), Rows(args.t.vals)))

\* C13: the first entry of a returned wedgie is >= 0, and the returned vector
\* is the vector of maximal-minor determinants multiplied as a whole by the
\* sign of its first entry (either sign when that entry is zero).
C13_WedgieFirstEntryNonNegative ==
    (op = "wedgie" /\ res.exc = "") =>
        /\ res.value[1].n >= 0 /\ res.value[1].d > 0
        /\ Len(res.value) = Len(RawWedgie)
        /\ \E sign \in {-1, 1} :
              /\ RawWedgie[1].n > 0 => sign = 1
              /\ RawWedgie[1].n < 0 => sign = -1
              /\ \A k \in 1..Len(RawWedgie) : res.value[k] = RMul(RawWedgie[k], R(sign))

\* a wedgie of several entries was returned for a mapping whose first
\* maximal minor is negative
C13_Witness ==
    /\ op = "wedgie" /\ res.exc = ""
    /\ Len(res.value) > 1
    /\ RawWedgie[1].n < 0
    /\ res.value[1].n > 0
    /\ res.value[2] = RSub(R(0), RawWedgie[2]) /\ res.value[2].n # 0

\* the call of tune in progress, made with the numeric optimizer instead
NumericCall == [args.call EXCEPT !.optimizer = "main"]

\* C14: tune with the symbolic optimizer, when the symbolic backend cannot
\* be imported or the order is not 2, warns once and ends exactly as tune
\* with the numeric optimizer and the same norm, enforce text, constraints
\* and destretch target ends; the fallback is taken once.
C14_SymbolicFallsBackToNumeric ==
    (/\ op = "tune"
     /\ args.call.optimizer = "sym"
     /\ (~args.call.import_ok \/ args.self.order # R(2))) =>
        /\ res.optimizer = "main"
        /\ res.fallbacks = 1
        /\ \E sol \in TuneSolverOutcomes(NumericCall, args.self) :
              \E numeric \in {tune(NumericCall.t, "main", args.self, NumericCall.enforce,
                                   NumericCall.cons_monzo_list, NumericCall.des_monzo,
                                   NumericCall.import_ok, sol)} :
                 /\ numeric.fallbacks = 0
                 /\ Len(res.warn) = Len(numeric.warn) + 1
                 /\ res.warn[1] \in {WARN_NO_SYMBOLIC, WARN_NOT_EUCLIDEAN}
                 /\ res = [numeric EXCEPT !.warn = <<res.warn[1]>> \o @, !.fallbacks = 1]

\* tune was asked for a symbolic solution with a constraint, the symbolic
\* backend was missing, and the numeric optimizer returned generators
C14_Witness ==
    /\ op = "tune"
    /\ args.call.optimizer = "sym" /\ ~args.call.import_ok /\ args.self.order = R(2)
    /\ res.exc = "" /\ res.called /\ res.cons_monzo_list # None
    /\ res.fallbacks = 1 /\ res.warn[1] = WARN_NO_SYMBOLIC

\* the tokens of the enforce text of the call of tune in progress whose
\* letter is the given one, in textual order
Tokens(letter) ==
    LET enforce == IF args.call.enforce \in {<<"c">>, <<"d">>}
                   THEN args.call.enforce \o <<"1">> ELSE args.call.enforce
    IN  SelectSeq(FindAll(enforce, 1), LAMBDA entry : entry[1] = letter)

\* the columns are the monzos of the tokens, one each and in their order: a
\* token of index k >= 1 has the unit monzo with its 1 at position k - 1
MonzosOf(tokens, columns) ==
    /\ Cols(columns) = Len(tokens)
    /\ \A j \in 1..Len(tokens) :
          LET k == IntOf(SubSeq(tokens[j], 2, Len(tokens[j])))
          IN  k >= 1 =>
                /\ k <= Len(args.call.t.subgroup)
                /\ Column(columns, j) =
                      [i \in 1..Len(args.call.t.subgroup) |-> IF i = k THEN R(1) ELSE R(0)]

\* C15 as stated: without explicit lists tune reads the enforce text token
\* by token, every c<index> giving one monzo of the constraint list and
\* every d<index> one monzo of the destretch list, in textual order, an
\* index k >= 1 the unit monzo of position k - 1, a bare "c" or "d" read as
\* "c1" or "d1", a list without token absent; with an explicit list the
\* text is ignored.
C15_EnforceTextParsedTokenByToken ==
    op = "tune" =>
        IF args.call.cons_monzo_list = None /\ args.call.des_monzo = None
        THEN /\ IF Len(Tokens("c")) = 0 THEN res.cons_monzo_list = None
                ELSE /\ res.cons_monzo_list # None
                     /\ MonzosOf(Tokens("c"), res.cons_monzo_list[1])
             /\ IF Len(Tokens("d")) = 0 THEN res.des_monzo = None
                ELSE /\ res.des_monzo # None
                     /\ MonzosOf(Tokens("d"), res.des_monzo[1].val)
        ELSE /\ res.cons_monzo_list = args.call.cons_monzo_list
             /\ res.des_monzo = args.call.des_monzo
             /\ res.enforce_text = "custom"

====
